---- MODULE Spec2Model ----
(***************************************************************************)
(* State-machine model of the tetris game engine (src/main.py,             *)
(* src/constants.py): shape masks, collision detection, row clearing,      *)
(* the per-frame update frame() and the run_game loop that calls it.       *)
(***************************************************************************)
EXTENDS Integers, Sequences, FiniteSets, TLC

VARIABLES
    points,        \* GameContext.points
    level,         \* GameContext.level
    cleared_rows,  \* GameContext.cleared_rows
    highscore,     \* GameContext.highscore
    paused,        \* GameContext.paused
    game_started,  \* GameContext.game_started
    shapes,        \* GameContext.shapes, the active shape last
    next_shape,    \* GameContext.next_shape
    pc,            \* position in run_game's loop: "poll", "timer"; "call"
                   \* where a pure function is applied on its own
    frames,        \* number of frame() calls made with a directional key
    last,          \* what the most recent frame() call did (see NoCall)
    arg,           \* input of a pure function under test; the stats.json
                   \* source where start-up and quit are
    ret            \* the function applied to arg and its result

vars == <<points, level, cleared_rows, highscore, paused, game_started,
          shapes, next_shape, pc, frames, last, arg, ret>>

-----------------------------------------------------------------------------
(* Program constants (src/constants.py).                                   *)

WIDTH == 13
HEIGHT == 21
POINTS_PER_FULL_ROW == 10

KEY_UP == "KEY_UP"
KEY_DOWN == "KEY_DOWN"
KEY_LEFT == "KEY_LEFT"
KEY_RIGHT == "KEY_RIGHT"
ARROW_KEYS == {KEY_UP, KEY_DOWN, KEY_LEFT, KEY_RIGHT}

\* The keys getch() can deliver: the arrows, pause, quit, no key (timeout).
Keys == ARROW_KEYS \cup {"p", "q", "none"}

TetrisBlockShape == {"I", "J", "L", "O", "S", "T", "Z"}

BLOCK_MASKS ==
    [k \in TetrisBlockShape |->
        CASE k = "I" -> << FALSE, FALSE, FALSE, FALSE,
                           TRUE,  TRUE,  TRUE,  TRUE,
                           FALSE, FALSE, FALSE, FALSE,
                           FALSE, FALSE, FALSE, FALSE >>
          [] k = "J" -> << FALSE, FALSE, FALSE, FALSE,
                           FALSE, TRUE,  FALSE, FALSE,
                           FALSE, TRUE,  TRUE,  TRUE,
                           FALSE, FALSE, FALSE, FALSE >>
          [] k = "L" -> << FALSE, FALSE, FALSE, FALSE,
                           FALSE, FALSE, TRUE,  FALSE,
                           TRUE,  TRUE,  TRUE,  FALSE,
                           FALSE, FALSE, FALSE, FALSE >>
          [] k = "O" -> << FALSE, FALSE, FALSE, FALSE,
                           FALSE, TRUE,  TRUE,  FALSE,
                           FALSE, TRUE,  TRUE,  FALSE,
                           FALSE, FALSE, FALSE, FALSE >>
          [] k = "S" -> << FALSE, FALSE, FALSE, FALSE,
                           FALSE, TRUE,  TRUE,  FALSE,
                           TRUE,  TRUE,  FALSE, FALSE,
                           FALSE, FALSE, FALSE, FALSE >>
          [] k = "T" -> << FALSE, FALSE, FALSE, FALSE,
                           FALSE, TRUE,  FALSE, FALSE,
                           TRUE,  TRUE,  TRUE,  FALSE,
                           FALSE, FALSE, FALSE, FALSE >>
          [] k = "Z" -> << FALSE, FALSE, FALSE, FALSE,
                           TRUE,  TRUE,  FALSE, FALSE,
                           FALSE, TRUE,  TRUE,  FALSE,
                           FALSE, FALSE, FALSE, FALSE >>]

BLOCK_COLORS ==
    [k \in TetrisBlockShape |->
        CASE k = "I" -> 1 [] k = "J" -> 2 [] k = "L" -> 3 [] k = "O" -> 4
          [] k = "S" -> 5 [] k = "T" -> 6 [] k = "Z" -> 7]

-----------------------------------------------------------------------------
(* Block masks.  A mask is a 16-tuple of booleans; Python indexes it from  *)
(* 0, a TLA+ sequence from 1.                                              *)

index_bm(x, y) == 4 * y + (3 - x)

\* mask[index_bm(x, y)] of the source.
At(block, x, y) == block[index_bm(x, y) + 1]

\* The local (x, y) stored at 0-based slot i, the inverse of index_bm.
SlotX(i) == 3 - (i % 4)
SlotY(i) == i \div 4

\* tuple(cells) for a list of 16 cells: the mask as a sequence.
BlockMask(cells) == SubSeq(cells, 1, 16)

\* A shape is a TetrisBlock: position (x, y), block mask, color.
TetrisBlock(x, y, block, color) ==
    [x |-> x, y |-> y, block |-> block, color |-> color]

-----------------------------------------------------------------------------
(* Persisted stats.  stats.json is a path in BASE_DIR: missing, a          *)
(* directory, or a file of bytes; a str is the sequence of its code        *)
(* points.  Integers are those of 32 bits.                                 *)

\* F(v) with v computed once, before F is (a local variable of the source).
Bind(v, F(_)) == CHOOSE result \in {F(x) : x \in {v}} : TRUE

\* The printable ASCII characters, from code point 32 on ("grave" is the
\* grave accent, which a TLA+ string cannot hold).
Ascii ==
    << " ", "!", "\"", "#", "$", "%", "&", "'", "(", ")", "*", "+", ",", "-", ".", "/",
       "0", "1", "2", "3", "4", "5", "6", "7", "8", "9", ":", ";", "<", "=", ">", "?",
       "@", "A", "B", "C", "D", "E", "F", "G", "H", "I", "J", "K", "L", "M", "N", "O",
       "P", "Q", "R", "S", "T", "U", "V", "W", "X", "Y", "Z", "[", "\\", "]", "^", "_",
       "grave", "a", "b", "c", "d", "e", "f", "g", "h", "i", "j", "k", "l", "m", "n", "o",
       "p", "q", "r", "s", "t", "u", "v", "w", "x", "y", "z", "{", "|", "}", "~" >>

\* The str, or the ASCII bytes, written with the characters `chars`.
Str(chars) ==
    LET ord(char) == 31 + (CHOOSE i \in 1 .. 95 : Ascii[i] = char)
    IN  SubSeq([i \in 1 .. Len(chars) |-> ord(chars[i])], 1, Len(chars))

\* The character of str s at index i (from 1), -1 past its end.
CharAt(s, i) == IF i \in 1 .. Len(s) THEN s[i] ELSE -1

\* s[i:i + len(word)] == word
StartsWith(s, i, word) ==
    /\ i + Len(word) - 1 <= Len(s)
    /\ SubSeq(s, i, i + Len(word) - 1) = word

\* The values json.load delivers and json.dump takes are records by kind:
\* "None", "int" (int), "bool" (bool), "float" (repr: the float as repr()
\* prints it), "str" (str), "list" (items), "dict" (pairs: its items in
\* insertion order, each key once).

\* dict[key] = value: a key the dict has keeps its place.
RECURSIVE SetItem(_, _, _)
SetItem(pairs, key, value) ==
    IF pairs = << >> THEN << [key |-> key, value |-> value] >>
    ELSE IF pairs[1].key = key THEN << [key |-> key, value |-> value] >> \o Tail(pairs)
    ELSE << pairs[1] >> \o SetItem(Tail(pairs), key, value)

\* dict.get(key, default)
get(dict, key, default) ==
    IF \E i \in 1 .. Len(dict.pairs) : dict.pairs[i].key = key
    THEN dict.pairs[CHOOSE i \in 1 .. Len(dict.pairs) : dict.pairs[i].key = key].value
    ELSE default

DEFAULT_STATS ==
    [kind |-> "dict",
     pairs |-> << [key |-> Str(<< "h", "i", "g", "h", "s", "c", "o", "r", "e" >>),
                   value |-> [kind |-> "int", int |-> 0]] >>]

\* ---- open() and file.read() ----

\* The exception of open(path) for mode "r" or "w", "ok" if there is none.
\* readable and writable say what the process may do with the file or
\* directory at the path, creatable whether it may add a file to BASE_DIR.
open(source, mode) ==
    IF mode = "r"
    THEN IF source.path = "missing" THEN "FileNotFoundError"
         ELSE IF ~source.readable THEN "PermissionError"
         ELSE IF source.path = "directory" THEN "IsADirectoryError"
         ELSE "ok"
    ELSE IF source.path = "directory" THEN "IsADirectoryError"
         ELSE IF source.path = "missing" /\ ~source.creatable THEN "PermissionError"
         ELSE IF source.path = "file" /\ ~source.writable THEN "PermissionError"
         ELSE "ok"

\* bytes.decode("utf-8") from index i on, after the code points acc: the
\* encoding of text files where the locale is UTF-8.
RECURSIVE utf_8_decode(_, _, _)
utf_8_decode(bytes, i, acc) ==
    IF i > Len(bytes) THEN [raised |-> "none", text |-> acc]
    ELSE IF bytes[i] < 128 THEN utf_8_decode(bytes, i + 1, Append(acc, bytes[i]))
    ELSE IF bytes[i] \in 194 .. 223 /\ CharAt(bytes, i + 1) \in 128 .. 191
    THEN utf_8_decode(bytes, i + 2,
                      Append(acc, (bytes[i] - 192) * 64 + (bytes[i + 1] - 128)))
    ELSE IF /\ bytes[i] \in 224 .. 239
            /\ CharAt(bytes, i + 1) \in 128 .. 191 /\ CharAt(bytes, i + 2) \in 128 .. 191
            /\ bytes[i] = 224 => bytes[i + 1] >= 160
            /\ bytes[i] = 237 => bytes[i + 1] <= 159
    THEN utf_8_decode(bytes, i + 3,
                      Append(acc, (bytes[i] - 224) * 4096 + (bytes[i + 1] - 128) * 64
                                  + (bytes[i + 2] - 128)))
    ELSE IF /\ bytes[i] \in 240 .. 244
            /\ CharAt(bytes, i + 1) \in 128 .. 191 /\ CharAt(bytes, i + 2) \in 128 .. 191
            /\ CharAt(bytes, i + 3) \in 128 .. 191
            /\ bytes[i] = 240 => bytes[i + 1] >= 144
            /\ bytes[i] = 244 => bytes[i + 1] <= 143
    THEN utf_8_decode(bytes, i + 4,
                      Append(acc, (bytes[i] - 240) * 262144 + (bytes[i + 1] - 128) * 4096
                                  + (bytes[i + 2] - 128) * 64 + (bytes[i + 3] - 128)))
    ELSE [raised |-> "UnicodeDecodeError"]

\* Universal newlines of a text file: "\r\n" and "\r" are read as "\n".
RECURSIVE translate_newlines(_, _, _)
translate_newlines(text, i, acc) ==
    IF i > Len(text) THEN acc
    ELSE IF text[i] = 13
    THEN translate_newlines(text, IF CharAt(text, i + 1) = 10 THEN i + 2 ELSE i + 1,
                            Append(acc, 10))
    ELSE translate_newlines(text, i + 1, Append(acc, text[i]))

\* file.read() of a file opened in text mode.
read(bytes) ==
    Bind(utf_8_decode(bytes, 1, << >>), LAMBDA decoded :
        IF decoded.raised # "none" THEN decoded
        ELSE [raised |-> "none", text |-> translate_newlines(decoded.text, 1, << >>)])

\* ---- json.load ----

\* A parse that failed, and one that gave `value` and stopped before `end`.
JSONDecodeError == [raised |-> "JSONDecodeError"]
Parsed(value, end) == [raised |-> "none", value |-> value, end |-> end]

\* The index after the WHITESPACE (space, tab, line feed, carriage return)
\* that starts at i.
RECURSIVE skip_whitespace(_, _)
skip_whitespace(s, i) ==
    IF CharAt(s, i) \in {32, 9, 10, 13} THEN skip_whitespace(s, i + 1) ELSE i

\* The index after the digits that start at i.
RECURSIVE DigitsEnd(_, _)
DigitsEnd(s, i) == IF CharAt(s, i) \in 48 .. 57 THEN DigitsEnd(s, i + 1) ELSE i

\* int() of the digits s[i] .. s[j - 1].
RECURSIVE FromDigits(_, _, _)
FromDigits(s, i, j) ==
    IF j <= i THEN 0 ELSE 10 * FromDigits(s, i, j - 1) + (s[j - 1] - 48)

\* str(n) of an int.
RECURSIVE ToDigits(_)
ToDigits(n) ==
    IF n < 0 THEN << 45 >> \o ToDigits(0 - n)
    ELSE IF n < 10 THEN << 48 + n >>
    ELSE Append(ToDigits(n \div 10), 48 + (n % 10))

\* repr() of the float 0.d1d2...dn * 10^point, d1 and dn not zero: plain
\* digits where -4 < point <= 16, else with an exponent of two digits or
\* more.
float_repr(digits, point) ==
    LET Zeros(n) == [i \in 1 .. n |-> 48]
    IN  IF -4 < point /\ point <= 16
        THEN IF point <= 0 THEN << 48, 46 >> \o Zeros(0 - point) \o digits
             ELSE IF point >= Len(digits)
             THEN digits \o Zeros(point - Len(digits)) \o << 46, 48 >>
             ELSE SubSeq(digits, 1, point) \o << 46 >>
                  \o SubSeq(digits, point + 1, Len(digits))
        ELSE << digits[1] >>
             \o (IF Len(digits) > 1 THEN << 46 >> \o Tail(digits) ELSE << >>)
             \o << 101, IF point > 0 THEN 43 ELSE 45 >>
             \o (IF point - 1 \in -9 .. 9 THEN << 48 >> ELSE << >>)
             \o ToDigits(IF point > 0 THEN point - 1 ELSE 1 - point)

\* float() of a number literal with the digits `digits` (the integer part
\* and the fraction) read as 0.digits * 10^point: the nearest double, held
\* by its repr().  Too large is inf, too small is 0.0; a literal of more
\* digits than a double holds, or near the ends of its range, is rounded in
\* a way that is not modelled ("?"): a double holds DBL_DIG decimal digits
\* exactly, for values between 10^DBL_MIN_10_EXP and 10^DBL_MAX_10_EXP.
float(negative, digits, point) ==
    LET DBL_DIG == 15
        DBL_MIN_10_EXP == -307
        DBL_MAX_10_EXP == 308
        n == Len(digits)
        lead == CHOOSE k \in 0 .. n :
                    /\ \A j \in 1 .. k : digits[j] = 48
                    /\ k < n => digits[k + 1] # 48
        trail == CHOOSE k \in 0 .. n - lead :
                    /\ \A j \in n - k + 1 .. n : digits[j] = 48
                    /\ k < n - lead => digits[n - k] # 48
        kept == SubSeq(digits, lead + 1, n - trail)
        at == point - lead
    IN  [kind |-> "float",
         repr |-> (IF negative THEN << 45 >> ELSE << >>) \o
            (IF kept = << >> \/ at < -323 THEN << 48, 46, 48 >>
             ELSE IF at > DBL_MAX_10_EXP + 1 THEN Str(<< "i", "n", "f" >>)
             ELSE IF \/ Len(kept) > DBL_DIG
                     \/ at > DBL_MAX_10_EXP
                     \/ at <= DBL_MIN_10_EXP
             THEN Str(<< "?" >>)
             ELSE float_repr(kept, at))]

\* NUMBER_RE at index i: an optional minus, 0 or digits that do not start
\* with 0, an optional fraction, an optional exponent; a literal with
\* neither fraction nor exponent is an int.
match_number(s, i) ==
    Bind(IF CharAt(s, i) = 45 THEN i + 1 ELSE i, LAMBDA start :
    Bind(IF CharAt(s, start) = 48 THEN start + 1 ELSE DigitsEnd(s, start), LAMBDA int_end :
    Bind(IF CharAt(s, int_end) = 46 /\ CharAt(s, int_end + 1) \in 48 .. 57
         THEN DigitsEnd(s, int_end + 1) ELSE int_end, LAMBDA frac_end :
    Bind(IF CharAt(s, frac_end) \in {69, 101}
         THEN IF CharAt(s, frac_end + 1) \in {43, 45} THEN frac_end + 2 ELSE frac_end + 1
         ELSE 0, LAMBDA exp :
    Bind(IF exp > 0 /\ CharAt(s, exp) \in 48 .. 57 THEN DigitsEnd(s, exp) ELSE frac_end, LAMBDA end :
        IF int_end = start THEN JSONDecodeError
        ELSE IF end = int_end
        THEN Parsed([kind |-> "int",
                     int |-> IF start > i THEN 0 - FromDigits(s, start, int_end)
                             ELSE FromDigits(s, start, int_end)],
                    end)
        ELSE Parsed(float(start > i,
                          SubSeq(s, start, int_end - 1) \o SubSeq(s, int_end + 1, frac_end - 1),
                          (int_end - start)
                          + (IF end = frac_end THEN 0
                             ELSE IF s[exp - 1] = 45 THEN 0 - FromDigits(s, exp, end)
                             ELSE FromDigits(s, exp, end))),
                    end))))))

\* The value of the four hexadecimal digits s[i] .. s[i + 3] of a \uXXXX
\* escape, -1 if they are not four hexadecimal digits.
Hex4(s, i) ==
    LET HexDigit(char) ==
            IF char \in 48 .. 57 THEN char - 48
            ELSE IF char \in 65 .. 70 THEN char - 55
            ELSE IF char \in 97 .. 102 THEN char - 87
            ELSE -1
    IN  IF \E j \in i .. i + 3 : HexDigit(CharAt(s, j)) < 0 THEN -1
        ELSE 4096 * HexDigit(s[i]) + 256 * HexDigit(s[i + 1]) + 16 * HexDigit(s[i + 2])
             + HexDigit(s[i + 3])

\* BACKSLASH: what the character after a backslash stands for, -1 if it
\* is no escape.
BACKSLASH(char) ==
    IF char \in {34, 92, 47} THEN char
    ELSE IF char = 98 THEN 8
    ELSE IF char = 102 THEN 12
    ELSE IF char = 110 THEN 10
    ELSE IF char = 114 THEN 13
    ELSE IF char = 116 THEN 9
    ELSE -1

\* scanstring (strict) from the index i after the opening quote, after the
\* characters acc: a control character ends the parse, \uXXXX is a code
\* point, and a high surrogate followed by a low one is one code point.
RECURSIVE scanstring(_, _, _)
scanstring(s, i, acc) ==
    IF i > Len(s) THEN JSONDecodeError
    ELSE IF s[i] = 34 THEN Parsed([kind |-> "str", str |-> acc], i + 1)
    ELSE IF s[i] < 32 THEN JSONDecodeError
    ELSE IF s[i] # 92 THEN scanstring(s, i + 1, Append(acc, s[i]))
    ELSE IF CharAt(s, i + 1) = 117
    THEN IF Hex4(s, i + 2) < 0 THEN JSONDecodeError
         ELSE IF /\ Hex4(s, i + 2) \in 55296 .. 56319
                 /\ CharAt(s, i + 6) = 92 /\ CharAt(s, i + 7) = 117
                 /\ Hex4(s, i + 8) \in 56320 .. 57343
         THEN scanstring(s, i + 12,
                         Append(acc, 65536 + (Hex4(s, i + 2) - 55296) * 1024
                                     + (Hex4(s, i + 8) - 56320)))
         ELSE scanstring(s, i + 6, Append(acc, Hex4(s, i + 2)))
    ELSE IF BACKSLASH(CharAt(s, i + 1)) >= 0
    THEN scanstring(s, i + 2, Append(acc, BACKSLASH(s[i + 1])))
    ELSE JSONDecodeError

RECURSIVE scan_once(_, _)
RECURSIVE JSONObject(_, _, _)
RECURSIVE JSONArray(_, _, _)

\* JSONObject from the index i where a key has to start, after `pairs`.
JSONObject(s, i, pairs) ==
    IF CharAt(s, i) # 34 THEN JSONDecodeError
    ELSE
    Bind(scanstring(s, i + 1, << >>), LAMBDA key :
        IF key.raised # "none" THEN JSONDecodeError
        ELSE
        Bind(skip_whitespace(s, key.end), LAMBDA colon :
            IF CharAt(s, colon) # 58 THEN JSONDecodeError
            ELSE
            Bind(scan_once(s, skip_whitespace(s, colon + 1)), LAMBDA item :
                IF item.raised # "none" THEN JSONDecodeError
                ELSE
                Bind(skip_whitespace(s, item.end), LAMBDA next :
                    IF CharAt(s, next) = 125
                    THEN Parsed([kind |-> "dict",
                                 pairs |-> SetItem(pairs, key.value.str, item.value)],
                                next + 1)
                    ELSE IF CharAt(s, next) = 44
                    THEN JSONObject(s, skip_whitespace(s, next + 1),
                                    SetItem(pairs, key.value.str, item.value))
                    ELSE JSONDecodeError))))

\* JSONArray from the index i where an item has to start, after `items`.
JSONArray(s, i, items) ==
    Bind(scan_once(s, i), LAMBDA item :
        IF item.raised # "none" THEN JSONDecodeError
        ELSE
        Bind(skip_whitespace(s, item.end), LAMBDA next :
            IF CharAt(s, next) = 93
            THEN Parsed([kind |-> "list", items |-> Append(items, item.value)], next + 1)
            ELSE IF CharAt(s, next) = 44
            THEN JSONArray(s, skip_whitespace(s, next + 1), Append(items, item.value))
            ELSE JSONDecodeError))

\* scan_once: the JSON value that starts at index i.
scan_once(s, i) ==
    IF CharAt(s, i) = 34 THEN scanstring(s, i + 1, << >>)
    ELSE IF CharAt(s, i) = 123
    THEN Bind(skip_whitespace(s, i + 1), LAMBDA next :
            IF CharAt(s, next) = 125 THEN Parsed([kind |-> "dict", pairs |-> << >>], next + 1)
            ELSE JSONObject(s, next, << >>))
    ELSE IF CharAt(s, i) = 91
    THEN Bind(skip_whitespace(s, i + 1), LAMBDA next :
            IF CharAt(s, next) = 93 THEN Parsed([kind |-> "list", items |-> << >>], next + 1)
            ELSE JSONArray(s, next, << >>))
    ELSE IF StartsWith(s, i, Str(<< "n", "u", "l", "l" >>)) THEN Parsed([kind |-> "None"], i + 4)
    ELSE IF StartsWith(s, i, Str(<< "t", "r", "u", "e" >>))
    THEN Parsed([kind |-> "bool", bool |-> TRUE], i + 4)
    ELSE IF StartsWith(s, i, Str(<< "f", "a", "l", "s", "e" >>))
    THEN Parsed([kind |-> "bool", bool |-> FALSE], i + 5)
    ELSE IF StartsWith(s, i, Str(<< "N", "a", "N" >>))
    THEN Parsed([kind |-> "float", repr |-> Str(<< "n", "a", "n" >>)], i + 3)
    ELSE IF StartsWith(s, i, Str(<< "I", "n", "f", "i", "n", "i", "t", "y" >>))
    THEN Parsed([kind |-> "float", repr |-> Str(<< "i", "n", "f" >>)], i + 8)
    ELSE IF StartsWith(s, i, Str(<< "-", "I", "n", "f", "i", "n", "i", "t", "y" >>))
    THEN Parsed([kind |-> "float", repr |-> Str(<< "-", "i", "n", "f" >>)], i + 9)
    ELSE match_number(s, i)

\* json.load of a file whose read() gave the str s: one value, whitespace
\* before and after it and nothing else.
json_load(s) ==
    Bind(scan_once(s, skip_whitespace(s, 1)), LAMBDA obj :
        IF obj.raised # "none" THEN JSONDecodeError
        ELSE IF skip_whitespace(s, obj.end) # Len(s) + 1 THEN JSONDecodeError
        ELSE [raised |-> "none", value |-> obj.value])

\* ---- json.dump ----

\* What encode_basestring_ascii writes for one character: \uXXXX, in
\* lower case, for what is not printable ASCII and has no short escape,
\* and two of them for a code point of 65536 or more.
EscapeChar(c) ==
    LET HexChar(d) == IF d < 10 THEN 48 + d ELSE 87 + d
        EscapeU(u) ==
            << 92, 117, HexChar(u \div 4096), HexChar((u \div 256) % 16),
               HexChar((u \div 16) % 16), HexChar(u % 16) >>
    IN  IF c \in {34, 92} THEN << 92, c >>
        ELSE IF c \in 32 .. 126 THEN << c >>
        ELSE IF c = 10 THEN << 92, 110 >>
        ELSE IF c = 13 THEN << 92, 114 >>
        ELSE IF c = 9 THEN << 92, 116 >>
        ELSE IF c = 12 THEN << 92, 102 >>
        ELSE IF c = 8 THEN << 92, 98 >>
        ELSE IF c < 65536 THEN EscapeU(c)
        ELSE EscapeU(55296 + ((c - 65536) \div 1024))
             \o EscapeU(56320 + ((c - 65536) % 1024))

\* encode_basestring_ascii without the quotes, from index i on.
RECURSIVE EscapeFrom(_, _)
EscapeFrom(s, i) ==
    IF i > Len(s) THEN << >> ELSE EscapeChar(s[i]) \o EscapeFrom(s, i + 1)

encode_basestring_ascii(s) == << 34 >> \o EscapeFrom(s, 1) \o << 34 >>

RECURSIVE json_dump(_)
RECURSIVE DumpItems(_, _)
RECURSIVE DumpPairs(_, _)

\* The items of a list from index i on, ", " between them.
DumpItems(items, i) ==
    IF i > Len(items) THEN << >>
    ELSE (IF i > 1 THEN << 44, 32 >> ELSE << >>) \o json_dump(items[i])
         \o DumpItems(items, i + 1)

\* The items of a dict from index i on, ": " after a key.
DumpPairs(pairs, i) ==
    IF i > Len(pairs) THEN << >>
    ELSE (IF i > 1 THEN << 44, 32 >> ELSE << >>)
         \o encode_basestring_ascii(pairs[i].key) \o << 58, 32 >>
         \o json_dump(pairs[i].value) \o DumpPairs(pairs, i + 1)

\* What json.dump(value, file) writes.
json_dump(value) ==
    IF value.kind = "None" THEN Str(<< "n", "u", "l", "l" >>)
    ELSE IF value.kind = "bool"
    THEN IF value.bool THEN Str(<< "t", "r", "u", "e" >>)
         ELSE Str(<< "f", "a", "l", "s", "e" >>)
    ELSE IF value.kind = "int" THEN ToDigits(value.int)
    ELSE IF value.kind = "float"
    THEN IF value.repr = Str(<< "n", "a", "n" >>) THEN Str(<< "N", "a", "N" >>)
         ELSE IF value.repr = Str(<< "i", "n", "f" >>)
         THEN Str(<< "I", "n", "f", "i", "n", "i", "t", "y" >>)
         ELSE IF value.repr = Str(<< "-", "i", "n", "f" >>)
         THEN Str(<< "-", "I", "n", "f", "i", "n", "i", "t", "y" >>)
         ELSE value.repr
    ELSE IF value.kind = "str" THEN encode_basestring_ascii(value.str)
    ELSE IF value.kind = "list"
    THEN << 91 >> \o DumpItems(value.items, 1) \o << 93 >>
    ELSE << 123 >> \o DumpPairs(value.pairs, 1) \o << 125 >>

\* ---- load_stats, save_stats ----

\* load_stats: FileNotFoundError and JSONDecodeError give the defaults, any
\* other exception of open() or read() leaves the function.
load_stats(source) ==
    IF open(source, "r") = "FileNotFoundError"
    THEN [raised |-> "none", value |-> DEFAULT_STATS]
    ELSE IF open(source, "r") # "ok" THEN [raised |-> open(source, "r")]
    ELSE
    Bind(read(source.bytes), LAMBDA file :
        IF file.raised # "none" THEN [raised |-> file.raised]
        ELSE
        Bind(json_load(file.text), LAMBDA loaded :
            IF loaded.raised = "JSONDecodeError"
            THEN [raised |-> "none", value |-> DEFAULT_STATS]
            ELSE loaded))

\* save_stats on the stats.json `source`: where open(path, "w") raises the
\* source stays as it is; else the file, created if it was missing, holds
\* what json.dump wrote.
save_stats(source, stats) ==
    IF open(source, "w") # "ok"
    THEN [raised |-> open(source, "w"), source |-> source]
    ELSE [raised |-> "none",
          source |-> [path |-> "file",
                      readable |-> IF source.path = "missing" THEN TRUE
                                   ELSE source.readable,
                      writable |-> TRUE,
                      creatable |-> source.creatable,
                      bytes |-> json_dump(stats)]]

\* load_stats().get("highscore", 0) of main(): only a dict has get.
get_highscore(source) ==
    Bind(load_stats(source), LAMBDA loaded :
        IF loaded.raised # "none" THEN loaded
        ELSE IF loaded.value.kind # "dict" THEN [raised |-> "AttributeError"]
        ELSE [raised |-> "none",
              value |-> get(loaded.value,
                            Str(<< "h", "i", "g", "h", "s", "c", "o", "r", "e" >>),
                            [kind |-> "int", int |-> 0])])

-----------------------------------------------------------------------------
(* Collision check.                                                        *)

\* Mutant: the box is one short of the footprint on either axis.
get_shape_bounds_narrow(position) ==
    [min_x |-> position.x, max_x |-> position.x + 3,
     min_y |-> position.y, max_y |-> position.y + 3]

get_shape_bounds(position) ==
    [min_x |-> position.x, max_x |-> position.x + 4,
     min_y |-> position.y, max_y |-> position.y + 4]

Max(a, b) == IF a >= b THEN a ELSE b
Min(a, b) == IF a <= b THEN a ELSE b

\* Mutant: the area ends one column early.
get_intersection_area_short(box_a, box_b) ==
    [min_x |-> Max(box_a.min_x, box_b.min_x),
     max_x |-> Min(box_a.max_x, box_b.max_x) - 1,
     min_y |-> Max(box_a.min_y, box_b.min_y),
     max_y |-> Min(box_a.max_y, box_b.max_y)]

get_intersection_area(box_a, box_b) ==
    [min_x |-> Max(box_a.min_x, box_b.min_x),
     max_x |-> Min(box_a.max_x, box_b.max_x),
     min_y |-> Max(box_a.min_y, box_b.min_y),
     max_y |-> Min(box_a.max_y, box_b.max_y)]

\* range(min, max) is empty when min >= max, as is min..(max - 1).
check_collision(intersection, shape_a, shape_b) ==
    \E x \in intersection.min_x .. (intersection.max_x - 1) :
        \E y \in intersection.min_y .. (intersection.max_y - 1) :
            /\ At(shape_a.block, x - shape_a.x, y - shape_a.y)
            /\ At(shape_b.block, x - shape_b.x, y - shape_b.y)

\* The bounding-box test that lets a pair skip the cell-level check.
BoxesApart(current_bb, other_bb) ==
    \/ current_bb.min_x > other_bb.max_x
    \/ current_bb.max_x < other_bb.min_x
    \/ current_bb.min_y > other_bb.max_y
    \/ current_bb.max_y < other_bb.min_y

intersects_any(shps) ==
    LET current_shape == shps[Len(shps)]
        current_bb == get_shape_bounds(current_shape)
    IN  \E i \in 1 .. (Len(shps) - 1) :
            LET other_bb == get_shape_bounds(shps[i])
            IN  /\ ~BoxesApart(current_bb, other_bb)
                /\ check_collision(get_intersection_area(current_bb, other_bb),
                                   current_shape, shps[i])

\* Mutant: the right wall is one column further.
is_in_bounds_wide(shape) ==
    \A x \in 0 .. 3 : \A y \in 0 .. 3 :
        At(shape.block, x, y) =>
            ~ \/ shape.x + x < 0
              \/ shape.x + x > WIDTH
              \/ shape.y + y < 0

is_in_bounds(shape) ==
    \A x \in 0 .. 3 : \A y \in 0 .. 3 :
        At(shape.block, x, y) =>
            ~ \/ shape.x + x < 0
              \/ shape.x + x >= WIDTH
              \/ shape.y + y < 0

-----------------------------------------------------------------------------
(* Handle full rows.                                                       *)

\* Where the shape lies relative to row, and the board columns it fills in
\* that row when it cuts it (the entries it sets in row_fill_mask).
categorize_and_mark_shape(shape, row) ==
    IF shape.y > row THEN [category |-> "above", marks |-> {}]
    ELSE IF shape.y + 4 <= row THEN [category |-> "below", marks |-> {}]
    ELSE [category |-> "cut",
          marks |-> {shape.x + x : x \in
                        {x \in 0 .. 3 : /\ 0 <= shape.x + x
                                        /\ shape.x + x < WIDTH
                                        /\ At(shape.block, x, row - shape.y)}}]

\* Mutant: the shapes above stay where they are.
move_shapes_down_stay(shape) == shape

\* move_shapes_down, for one shape of above_shapes.
move_shapes_down(shape) == [shape EXCEPT !.y = shape.y - 1]

\* Mutant: the topmost local row is left as it was.
remove_row_from_shapes_top(shape, row) ==
    LET row_idx == row - shape.y
        new_block == [i \in 1 .. 16 |->
            LET x == SlotX(i - 1)
                y == SlotY(i - 1)
            IN  IF y < row_idx THEN At(shape.block, x, y)
                ELSE IF y + 1 < 4 THEN At(shape.block, x, y + 1)
                ELSE At(shape.block, x, y)]
    IN  [shape EXCEPT !.block = BlockMask(new_block)]

\* remove_row_from_shapes, for one shape of cut_shapes.
remove_row_from_shapes(shape, row) ==
    LET row_idx == row - shape.y
        new_block == [i \in 1 .. 16 |->
            LET x == SlotX(i - 1)
                y == SlotY(i - 1)
            IN  IF y < row_idx THEN At(shape.block, x, y)
                ELSE IF y + 1 < 4 THEN At(shape.block, x, y + 1)
                ELSE FALSE]
    IN  [shape EXCEPT !.block = BlockMask(new_block)]

\* Mutant: the last column is not asked for.
RowIsFull_but_last(shps, row) ==
    \A col \in 0 .. (WIDTH - 2) :
        \E i \in 1 .. Len(shps) : col \in categorize_and_mark_shape(shps[i], row).marks

\* all(is_column_filled) after every shape was categorized for this row.
RowIsFull(shps, row) ==
    \A col \in 0 .. (WIDTH - 1) :
        \E i \in 1 .. Len(shps) : col \in categorize_and_mark_shape(shps[i], row).marks

\* One clearing of a full row: the shapes above move down, the shapes that
\* cut the row lose it, the shapes below are left alone.
ClearRow(shps, row) ==
    LET cleared == [i \in 1 .. Len(shps) |->
            LET category == categorize_and_mark_shape(shps[i], row).category
            IN  IF category = "above" THEN move_shapes_down(shps[i])
                ELSE IF category = "cut" THEN remove_row_from_shapes(shps[i], row)
                ELSE shps[i]]
    IN  SubSeq(cleared, 1, Len(shps))

\* Mutant: the row after a cleared row is examined next.
RECURSIVE ClearLoop_advance(_, _, _)
ClearLoop_advance(shps, row, number_cleared_rows) ==
    IF ~(row < HEIGHT)
    THEN [shapes |-> shps, number_cleared_rows |-> number_cleared_rows]
    ELSE IF ~RowIsFull(shps, row)
    THEN ClearLoop_advance(shps, row + 1, number_cleared_rows)
    ELSE Bind(ClearRow(shps, row),
              LAMBDA cleared :
                  ClearLoop_advance(cleared, row + 1, number_cleared_rows + 1))

\* The while loop of clear_full_rows from `row` on: a row that was cleared
\* is examined again, a row that is not full is passed.  The result is the
\* list as the call leaves it and the number it returns.
RECURSIVE ClearLoop(_, _, _)
ClearLoop(shps, row, number_cleared_rows) ==
    IF ~(row < HEIGHT)
    THEN [shapes |-> shps, number_cleared_rows |-> number_cleared_rows]
    ELSE IF ~RowIsFull(shps, row)
    THEN ClearLoop(shps, row + 1, number_cleared_rows)
    ELSE Bind(ClearRow(shps, row),
              LAMBDA cleared : ClearLoop(cleared, row, number_cleared_rows + 1))

\* Mutant: only row 0 is examined, once.
clear_full_rows_bottom(shps) ==
    IF RowIsFull(shps, 0)
    THEN [shapes |-> ClearRow(shps, 0), number_cleared_rows |-> 1]
    ELSE [shapes |-> shps, number_cleared_rows |-> 0]

clear_full_rows(shps) == Bind(shps, LAMBDA list : ClearLoop(list, 0, 0))

-----------------------------------------------------------------------------
(* Manage shapes.                                                          *)

\* get_new_shape with the outcome of random.choice given as shape_type.
get_new_shape(shape_type) ==
    TetrisBlock(WIDTH \div 2 - 2, HEIGHT - 4,
                BLOCK_MASKS[shape_type], BLOCK_COLORS[shape_type])

\* spawn_shape; fresh is the shape get_new_shape() returns.
spawn_shape(context, fresh) ==
    [context EXCEPT !.shapes = Append(context.shapes, context.next_shape),
                    !.next_shape = fresh]

\* Mutant: the mask is transposed.
rotate_shape_transposed(mask) ==
    BlockMask([i \in 1 .. 16 |-> At(mask, SlotY(i - 1), SlotX(i - 1))])

rotate_shape(mask) ==
    BlockMask([i \in 1 .. 16 |->
        \* result[index_bm(y, 3 - x)] = mask[index_bm(x, y)]: slot i - 1 is
        \* (y, 3 - x) for x = 3 - SlotY(i - 1), y = SlotX(i - 1).
        At(mask, 3 - SlotY(i - 1), SlotX(i - 1))])

\* Mutant: a downward step is two rows.
move_shape_fall(shape, key) ==
    IF key = KEY_LEFT THEN [shape EXCEPT !.x = shape.x - 1]
    ELSE IF key = KEY_RIGHT THEN [shape EXCEPT !.x = shape.x + 1]
    ELSE IF key = KEY_UP THEN [shape EXCEPT !.block = rotate_shape(shape.block)]
    ELSE IF key = KEY_DOWN THEN [shape EXCEPT !.y = shape.y - 2]
    ELSE shape

move_shape(shape, key) ==
    CASE key = KEY_LEFT  -> [shape EXCEPT !.x = shape.x - 1]
      [] key = KEY_RIGHT -> [shape EXCEPT !.x = shape.x + 1]
      [] key = KEY_UP    -> [shape EXCEPT !.block = rotate_shape(shape.block)]
      [] key = KEY_DOWN  -> [shape EXCEPT !.y = shape.y - 1]
      [] OTHER           -> shape

-----------------------------------------------------------------------------
(* Manage level and points.                                                *)

\* Mutant: the level itself is the multiplier.
update_points_level(context, num_cleared_rows) ==
    LET factor == CASE num_cleared_rows = 1 -> 1
                    [] num_cleared_rows = 2 -> 3
                    [] num_cleared_rows = 3 -> 5
                    [] num_cleared_rows = 4 -> 8
                    [] OTHER -> 0
    IN  [context EXCEPT !.points =
            context.points + factor * POINTS_PER_FULL_ROW * context.level]

update_points(context, num_cleared_rows) ==
    LET factor == CASE num_cleared_rows = 1 -> 1
                    [] num_cleared_rows = 2 -> 3
                    [] num_cleared_rows = 3 -> 5
                    [] num_cleared_rows = 4 -> 8
                    [] OTHER -> 0
    IN  [context EXCEPT !.points =
            context.points + factor * POINTS_PER_FULL_ROW * (context.level + 1)]

\* Mutant: the level is taken from the rows cleared before this call.
update_level_stale(context, num_cleared_rows) ==
    LET total == context.cleared_rows + num_cleared_rows
    IN  [context EXCEPT !.cleared_rows = total, !.level = context.cleared_rows \div 10]

update_level(context, num_cleared_rows) ==
    LET total == context.cleared_rows + num_cleared_rows
    IN  [context EXCEPT !.cleared_rows = total, !.level = total \div 10]

-----------------------------------------------------------------------------
(* The per-frame update.                                                   *)

\* Mutant: the points survive the reset.
reset_game_keep_points(context, fresh) ==
    LET emptied == [context EXCEPT !.shapes = << >>]
        spawned == spawn_shape(emptied, fresh)
    IN  [spawned EXCEPT !.game_started = FALSE, !.level = 0, !.cleared_rows = 0]

reset_game(context, fresh) ==
    LET emptied == [context EXCEPT !.points = 0, !.shapes = << >>]
        spawned == spawn_shape(emptied, fresh)
    IN  [spawned EXCEPT !.game_started = FALSE, !.level = 0, !.cleared_rows = 0]

\* What a frame() call that returned at once (a key that is no arrow) did.
NoCall == [key |-> "none", rejected |-> FALSE, settled |-> FALSE,
           num_deleted_rows |-> 0, scored |-> 0, reset |-> FALSE]

\* The shapes list with its last (active) shape replaced.
WithActive(shps, shape) == [shps EXCEPT ![Len(shps)] = shape]

\* Mutant: the highscore follows the points.
update_highscore_follow(context) ==
    [context EXCEPT !.highscore = context.points]

\* Line 355 of frame().
update_highscore(context) ==
    [context EXCEPT !.highscore = Max(context.points, context.highscore)]

\* Mutant: only the position is put back.
restore_position(shape, old_pos, old_block) ==
    [shape EXCEPT !.x = old_pos.x, !.y = old_pos.y]

\* Lines 337-338 of frame(): the moved shape gets its old position and block.
restore(shape, old_pos, old_block) ==
    [shape EXCEPT !.x = old_pos.x, !.y = old_pos.y, !.block = old_block]

\* Mutant: a rejected downward step is treated as the other three are.
left_right_up_down(key) == key \in {KEY_LEFT, KEY_RIGHT, KEY_UP, KEY_DOWN}

\* Line 323 of frame().
left_right_up(key) == key \in {KEY_LEFT, KEY_RIGHT, KEY_UP}

\* The settling branch of frame(), lines 343-359: fresh1 is the shape
\* get_new_shape() returns in spawn_shape, fresh2 the one it returns in
\* reset_game.  `did` reports the locals of the call: `scored` is
\* context.points after update_points.
Settle(key, context, fresh1, fresh2) ==
    Bind(clear_full_rows(context.shapes), LAMBDA cleared :
    Bind(update_points([context EXCEPT !.shapes = cleared.shapes],
                       cleared.number_cleared_rows), LAMBDA scored :
    Bind(spawn_shape(update_level(scored, cleared.number_cleared_rows), fresh1),
         LAMBDA spawned :
    Bind(update_highscore(spawned), LAMBDA updated :
    Bind(intersects_any(updated.shapes), LAMBDA over :
        [context |-> IF over THEN reset_game(updated, fresh2) ELSE updated,
         did |-> [key |-> key, rejected |-> TRUE, settled |-> TRUE,
                  num_deleted_rows |-> cleared.number_cleared_rows,
                  scored |-> scored.points, reset |-> over]])))))

frame(key, context, fresh1, fresh2) ==
    IF key \notin ARROW_KEYS
    THEN [context |-> context, did |-> [NoCall EXCEPT !.key = key]]
    ELSE
    Bind(context.shapes[Len(context.shapes)], LAMBDA shape :
    Bind(WithActive(context.shapes, move_shape(shape, key)), LAMBDA moved_shapes :
    LET old_pos == [x |-> shape.x, y |-> shape.y]
        old_block == shape.block
        out_of_bounds == ~is_in_bounds(moved_shapes[Len(moved_shapes)])
        collides == intersects_any(moved_shapes)
    IN  IF ~(out_of_bounds \/ collides)
        THEN \* the move was valid and we are done
             [context |-> [context EXCEPT !.shapes = moved_shapes],
              did |-> [NoCall EXCEPT !.key = key]]
        ELSE
        Bind([context EXCEPT !.shapes =
                  WithActive(moved_shapes,
                             restore(moved_shapes[Len(moved_shapes)], old_pos, old_block))],
             LAMBDA restored :
            IF left_right_up(key)
            THEN [context |-> restored,
                  did |-> [NoCall EXCEPT !.key = key, !.rejected = TRUE]]
            ELSE Settle(key, restored, fresh1, fresh2))))

-----------------------------------------------------------------------------
(* The session and the run_game loop.                                      *)

\* The GameContext main() builds: loaded is load_stats().get("highscore", 0).
main(first, second, loaded) ==
    [points |-> 0, paused |-> FALSE, game_started |-> FALSE,
     shapes |-> << first >>, next_shape |-> second,
     highscore |-> loaded, level |-> 0, cleared_rows |-> 0]

\* Mutant: the timed call passes the up key.
timed_frame_up(context, fresh1, fresh2) == frame(KEY_UP, context, fresh1, fresh2)

\* Line 408 of run_game: frame(curses.KEY_DOWN, context).
timed_frame(context, fresh1, fresh2) == frame(KEY_DOWN, context, fresh1, fresh2)

\* The GameContext held in the variables.
Context ==
    [points |-> points, paused |-> paused, game_started |-> game_started,
     shapes |-> shapes, next_shape |-> next_shape,
     highscore |-> highscore, level |-> level, cleared_rows |-> cleared_rows]

\* Lines 396-399 of run_game: what the polled key does before frame().
handle_key(context, key) ==
    [context EXCEPT
        !.paused = IF key = "p" THEN ~context.paused ELSE context.paused,
        !.game_started = IF key \in ARROW_KEYS THEN TRUE ELSE context.game_started]

\* Mutant: a paused game runs.
Running_paused(context) == context.game_started

\* Line 401 of run_game.
Running(context) == ~context.paused /\ context.game_started

\* One loop iteration up to the timer check: the key is handled and, when
\* the game runs, passed to frame().  `called` tells whether frame() ran.
run_game_key(context, key, fresh1, fresh2) ==
    Bind(handle_key(context, key), LAMBDA handled :
        IF Running(handled)
        THEN Bind(frame(key, handled, fresh1, fresh2), LAMBDA step :
                [context |-> step.context, did |-> step.did, called |-> TRUE])
        ELSE [context |-> handled, did |-> NoCall, called |-> FALSE])

-----------------------------------------------------------------------------
(* Sessions in mid-game.  Each is the session a player reaches from the    *)
(* start of main() by the keys given here, every get_new_shape() drawing   *)
(* the I shape and the timed drop never falling due: it is computed by     *)
(* running the loop iteration above on those keys.                         *)

\* Bounds of the model.
MaxFrames == 3     \* frame() calls with a directional key explored per session
HoverRows == 1     \* rows a mid-game active shape hovers above its rest
PoolUsed == 10     \* shapes of ShapePool a synthetic configuration draws from
Turns == 4         \* successive applications of rotate_shape to one mask

Repeat(key, n) == [i \in 1 .. n |-> key]

\* The loop iteration for one key when every draw is the I shape.
Press(context, key) ==
    run_game_key(context, key, get_new_shape("I"), get_new_shape("I")).context

RECURSIVE PressAll(_, _, _)
PressAll(context, keys, i) ==
    IF i > Len(keys) THEN context
    ELSE Bind(Press(context, keys[i]), LAMBDA after : PressAll(after, keys, i + 1))

\* Rotate `ups` times, then move `shift` columns (left when negative).
Steer(context, ups, shift) ==
    Bind(Repeat(KEY_UP, ups) \o (IF shift < 0 THEN Repeat(KEY_LEFT, 0 - shift)
                                              ELSE Repeat(KEY_RIGHT, shift)),
         LAMBDA keys : PressAll(context, keys, 1))

\* How many downward steps the active shape takes before one is rejected.
RECURSIVE RestDepth(_)
RestDepth(context) ==
    Bind(frame(KEY_DOWN, context, get_new_shape("I"), get_new_shape("I")),
         LAMBDA step : IF step.did.rejected THEN 0 ELSE 1 + RestDepth(step.context))

\* Press down n times.
Drop(context, n) == Bind(Repeat(KEY_DOWN, n), LAMBDA keys : PressAll(context, keys, 1))

\* Press down until a step is rejected (and the shape settles).
RECURSIVE DropToRest(_)
DropToRest(context) ==
    Bind(run_game_key(context, KEY_DOWN, get_new_shape("I"), get_new_shape("I")),
         LAMBDA step : IF step.did.rejected THEN step.context
                       ELSE DropToRest(step.context))

\* Steer the active shape, press down until it has settled.
Place(context, placement) ==
    Bind(Steer(context, placement[1], placement[2]),
         LAMBDA steered : DropToRest(steered))

RECURSIVE PlaceAll(_, _, _)
PlaceAll(context, placements, i) ==
    IF i > Len(placements) THEN context
    ELSE Bind(Place(context, placements[i]),
              LAMBDA placed : PlaceAll(placed, placements, i + 1))

\* Steer the active shape, press down until it is HoverRows above its rest.
Hover(context, placement) ==
    Bind(Steer(context, placement[1], placement[2]),
         LAMBDA steered : Drop(steered, Max(RestDepth(steered) - HoverRows, 0)))

\* Three flat I shapes side by side fill columns 0..11 of the lowest free row;
\* an upright I in column 12 completes up to four such rows; upright I shapes
\* in column 5 build a tower under the spawn position.
RowOfThree == << <<0, -4>>, <<0, 0>>, <<0, 4>> >>
Well == <<1, 7>>
Tower == <<1, 0>>

Rows(n) == IF n = 0 THEN << >>
           ELSE IF n = 1 THEN RowOfThree
           ELSE IF n = 2 THEN RowOfThree \o RowOfThree
           ELSE IF n = 3 THEN RowOfThree \o RowOfThree \o RowOfThree
           ELSE RowOfThree \o RowOfThree \o RowOfThree \o RowOfThree

\* The highscore values load_stats() delivers to main(): the default of a
\* missing stats file, and a saved one.
LoadedHighscores == {0, 40}

Opening(loaded) == main(get_new_shape("I"), get_new_shape("I"), loaded)

\* n rows filled but for column 12.
Filled(n, loaded) == PlaceAll(Opening(loaded), Rows(n), 1)

\* Four rows cleared twice, then one row: 9 rows cleared, 170 points.
FourRows == Place(Filled(4, 0), Well)
EightRows == Place(PlaceAll(FourRows, Rows(4), 1), Well)
NineRows == Place(PlaceAll(EightRows, Rows(1), 1), Well)

\* The tenth row is cleared: level 1.
TenRows == PlaceAll(NineRows, RowOfThree, 1)
ElevenRows == PlaceAll(TenRows, RowOfThree, 1)

\* Eight more rows, cleared one and three at a time: column 12 of the lowest
\* row is left filled by each upright I.
FifteenRows == Place(PlaceAll(ElevenRows, Rows(4), 1), Well)
NineteenRows == Place(PlaceAll(FifteenRows, Rows(4), 1), Well)

\* The twentieth row is cleared: level 2.  Then nine more rows.
TwentyRows == PlaceAll(NineteenRows, RowOfThree, 1)
TwentyEightRows ==
    Place(PlaceAll(Place(PlaceAll(TwentyRows, Rows(4), 1), Well), Rows(4), 1), Well)
TwentyNineRows == Place(PlaceAll(TwentyEightRows, Rows(1), 1), Well)

FourTowers == << Tower, Tower, Tower, Tower >>

\* The long game, played without a stats file.
LongGame ==
    {   \* the flat I that completes the tenth and the eleventh row
        Hover(PlaceAll(NineRows, << <<0, -4>>, <<0, 0>> >>, 1), <<0, 4>>),
        Hover(PlaceAll(TenRows, << <<0, -4>>, <<0, 0>> >>, 1), <<0, 4>>),
        \* the flat I that completes the twentieth and the thirtieth row
        Hover(PlaceAll(NineteenRows, << <<0, -4>>, <<0, 0>> >>, 1), <<0, 4>>),
        Hover(PlaceAll(TwentyNineRows, << <<0, -4>>, <<0, 0>> >>, 1), <<0, 4>>),
        \* the fifth upright I of a tower that reaches the spawn position
        Hover(PlaceAll(ElevenRows, FourTowers, 1), Tower)
    }

MidGame(loaded) ==
    {   \* an upright I over the well of 1, 2, 3, 4 rows that lack column 12
        Hover(Filled(1, loaded), Well),
        Hover(Filled(2, loaded), Well),
        Hover(Filled(3, loaded), Well),
        Hover(Filled(4, loaded), Well),
        \* the fifth upright I of a tower that reaches the spawn position
        Hover(PlaceAll(Opening(loaded), FourTowers, 1), Tower),
        \* an I at the left wall (upright) and at the right wall (flat)
        Hover(Opening(loaded), <<1, -5>>),
        Hover(Opening(loaded), <<0, 5>>)
    }

Sessions ==
    LongGame \cup UNION {
        {main(get_new_shape(k1), get_new_shape(k2), loaded) : k1, k2 \in TetrisBlockShape}
        \cup MidGame(loaded) : loaded \in LoadedHighscores }

-----------------------------------------------------------------------------
(* The game: run_game's loop over a session.                               *)

\* No pure function has been applied.
NoRet == [fn |-> "none", value |-> 0]

\* The session is `context`.
Holds(context) ==
    /\ points = context.points
    /\ level = context.level
    /\ cleared_rows = context.cleared_rows
    /\ highscore = context.highscore
    /\ paused = context.paused
    /\ game_started = context.game_started
    /\ shapes = context.shapes
    /\ next_shape = context.next_shape

Init ==
    /\ \E context \in Sessions : Holds(context)
    /\ pc = "poll"
    /\ frames = 0
    /\ last = NoCall
    /\ arg = << >>
    /\ ret = NoRet

\* The session after the step is `context`.
Becomes(context) ==
    /\ points' = context.points
    /\ level' = context.level
    /\ cleared_rows' = context.cleared_rows
    /\ highscore' = context.highscore
    /\ paused' = context.paused
    /\ game_started' = context.game_started
    /\ shapes' = context.shapes
    /\ next_shape' = context.next_shape

\* random.choice is drawn only when get_new_shape() is called: a call of
\* frame() that spawns nothing has one outcome whatever the draw would be.
Draws(drawn) == IF drawn THEN TetrisBlockShape ELSE {"I"}

\* The keys the player presses in a game: q and p are left to the
\* specifications of quitting and pausing.
PlayedKeys == ARROW_KEYS \cup {"none"}

\* Lines 392-402: a key is polled, handled and, when the game runs, passed
\* to frame().
Poll ==
    /\ pc = "poll"
    /\ \E key \in PlayedKeys :
        \E probe \in {run_game_key(Context, key, get_new_shape("I"), get_new_shape("I"))} :
            LET counted == probe.called /\ key \in ARROW_KEYS
            IN  /\ counted => frames < MaxFrames
                /\ \E k1 \in Draws(probe.did.settled), k2 \in Draws(probe.did.reset) :
                    \E step \in {run_game_key(Context, key, get_new_shape(k1),
                                              get_new_shape(k2))} :
                        /\ Becomes(step.context)
                        /\ last' = IF counted THEN step.did ELSE last
                /\ frames' = IF counted THEN frames + 1 ELSE frames
                /\ pc' = IF probe.called THEN "timer" ELSE "poll"
    /\ UNCHANGED <<arg, ret>>

\* Lines 405-409 with the timed drop due: frame(curses.KEY_DOWN, context).
AutoDrop ==
    /\ pc = "timer"
    /\ frames < MaxFrames
    /\ \E probe \in {frame(KEY_DOWN, Context, get_new_shape("I"), get_new_shape("I"))} :
        \E k1 \in Draws(probe.did.settled), k2 \in Draws(probe.did.reset) :
            \E step \in {frame(KEY_DOWN, Context, get_new_shape(k1), get_new_shape(k2))} :
                /\ Becomes(step.context)
                /\ last' = step.did
    /\ frames' = frames + 1
    /\ pc' = "poll"
    /\ UNCHANGED <<arg, ret>>

\* Lines 405-407 with the timed drop not due yet.
NoDrop ==
    /\ pc = "timer"
    /\ pc' = "poll"
    /\ UNCHANGED <<points, level, cleared_rows, highscore, paused, game_started,
                   shapes, next_shape, frames, last, arg, ret>>

Next == Poll \/ AutoDrop \/ NoDrop

Spec == Init /\ [][Next]_vars

-----------------------------------------------------------------------------
(* clear_full_rows and intersects_any applied to synthetic lists of shapes. *)

Upright == rotate_shape(BLOCK_MASKS["I"])

\* Flat I shapes that fill rows 0 and 1 but for column 12, an upright I in
\* column 12, shapes above them, shapes overlapping them, shapes whose
\* footprints only touch.
ShapePool ==
    << TetrisBlock(0, -1, BLOCK_MASKS["I"], BLOCK_COLORS["I"]),
       TetrisBlock(4, -1, BLOCK_MASKS["I"], BLOCK_COLORS["I"]),
       TetrisBlock(8, -1, BLOCK_MASKS["I"], BLOCK_COLORS["I"]),
       TetrisBlock(11, 0, Upright, BLOCK_COLORS["I"]),
       TetrisBlock(0, 0, BLOCK_MASKS["I"], BLOCK_COLORS["I"]),
       TetrisBlock(4, 0, BLOCK_MASKS["I"], BLOCK_COLORS["I"]),
       TetrisBlock(8, 0, BLOCK_MASKS["I"], BLOCK_COLORS["I"]),
       TetrisBlock(0, 2, BLOCK_MASKS["O"], BLOCK_COLORS["O"]),
       TetrisBlock(3, -1, BLOCK_MASKS["I"], BLOCK_COLORS["I"]),
       TetrisBlock(5, 0, BLOCK_MASKS["T"], BLOCK_COLORS["T"]),
       TetrisBlock(9, 2, BLOCK_MASKS["J"], BLOCK_COLORS["J"]),
       TetrisBlock(11, 4, Upright, BLOCK_COLORS["I"]) >>

\* The pool shapes of `chosen` in pool order, but `active` last.
Listed(chosen, active) ==
    LET others == SelectSeq([i \in 1 .. Len(ShapePool) |-> i],
                            LAMBDA i : i \in chosen \ {active})
    IN  SubSeq([k \in 1 .. (Len(others) + 1) |->
                    IF k <= Len(others) THEN ShapePool[others[k]]
                    ELSE ShapePool[active]],
               1, Len(others) + 1)

Configurations ==
    {Listed(chosen, active) :
        <<chosen, active>> \in
            {pair \in (SUBSET (1 .. Min(PoolUsed, Len(ShapePool)))) \X (1 .. Len(ShapePool)) :
                pair[2] \in pair[1]}}

InitFn ==
    /\ Holds(main(get_new_shape("I"), get_new_shape("I"), 0))
    /\ pc = "call"
    /\ frames = 0
    /\ last = NoCall
    /\ arg \in Configurations
    /\ ret = NoRet

CallClearFullRows ==
    /\ pc = "call"
    /\ ret' = [fn |-> "clear_full_rows", value |-> clear_full_rows(arg)]
    /\ UNCHANGED <<points, level, cleared_rows, highscore, paused, game_started,
                   shapes, next_shape, pc, frames, last, arg>>

CallIntersectsAny ==
    /\ pc = "call"
    /\ ret' = [fn |-> "intersects_any", value |-> intersects_any(arg)]
    /\ UNCHANGED <<points, level, cleared_rows, highscore, paused, game_started,
                   shapes, next_shape, pc, frames, last, arg>>

NextFn == CallClearFullRows \/ CallIntersectsAny

SpecFn == InitFn /\ [][NextFn]_vars

-----------------------------------------------------------------------------
(* rotate_shape applied, up to Turns times in a row, to every mask.        *)

Masks == {BlockMask(cells) : cells \in [1 .. 16 -> BOOLEAN]}

InitMask ==
    /\ Holds(main(get_new_shape("I"), get_new_shape("I"), 0))
    /\ pc = "call"
    /\ frames = 0
    /\ last = NoCall
    /\ arg \in Masks
    /\ ret = NoRet

\* ret.value is rotate_shape applied ret.turns times to arg.
CallRotateShape ==
    /\ pc = "call"
    /\ IF ret = NoRet
       THEN ret' = [fn |-> "rotate_shape", value |-> rotate_shape(arg), turns |-> 1]
       ELSE /\ ret.turns < Turns
            /\ ret' = [ret EXCEPT !.value = rotate_shape(ret.value),
                                  !.turns = ret.turns + 1]
    /\ UNCHANGED <<points, level, cleared_rows, highscore, paused, game_started,
                   shapes, next_shape, pc, frames, last, arg>>

NextMask == CallRotateShape

SpecMask == InitMask /\ [][NextMask]_vars

-----------------------------------------------------------------------------
(* The loop of run_game, one whole iteration a step, followed until the    *)
(* active shape settles.  ret keeps the polled key, the number of frame()  *)
(* calls of the last iteration and the valid steps down the active shape   *)
(* has made; last is the call that settled, if one has.                    *)

\* Lines 391-409: one iteration with the polled key; `due` is the outcome of
\* the timer test of line 407, `fresh` the shapes get_new_shape() returns to
\* the first and to the timed call.  `calls` lists the frame() calls made.
run_game_iteration(context, key, due, fresh) ==
    Bind(handle_key(context, key), LAMBDA handled :
        IF ~Running(handled)
        THEN [context |-> handled, calls |-> << >>]
        ELSE Bind(frame(key, handled, fresh[1], fresh[2]), LAMBDA first :
            IF ~due
            THEN [context |-> first.context, calls |-> << first.did >>]
            ELSE Bind(timed_frame(first.context, fresh[3], fresh[4]), LAMBDA second :
                [context |-> second.context,
                 calls |-> << first.did, second.did >>])))

\* The call of an iteration that settled, else its last call.
Noted(calls) ==
    IF calls = << >> THEN NoCall
    ELSE IF calls[1].settled THEN calls[1]
    ELSE calls[Len(calls)]

\* The steps down among the calls that were valid.
ValidDowns(calls) ==
    Cardinality({i \in 1 .. Len(calls) :
        calls[i].key = KEY_DOWN /\ ~calls[i].rejected})

\* The outcomes of one iteration, one for each draw of random.choice.  An
\* iteration without settle draws nothing and has one outcome.  Else the
\* shapes drawn are enumerated for the calls that spawn: whether the first
\* call settles and resets does not depend on them, and whether the timed
\* call does depends only on those of the first.
Iterations(context, key, due) ==
    LET I == get_new_shape("I")
        TimedFlags(calls) == IF Len(calls) = 2 THEN calls[2] ELSE NoCall
        Timed(k1, k2) ==
            Bind(TimedFlags(run_game_iteration(context, key, due,
                    << get_new_shape(k1), get_new_shape(k2), I, I >>).calls),
                 LAMBDA flags :
                    {run_game_iteration(context, key, due,
                        << get_new_shape(k1), get_new_shape(k2),
                           get_new_shape(k3), get_new_shape(k4) >>) :
                        k3 \in Draws(flags.settled), k4 \in Draws(flags.reset)})
    IN  Bind(run_game_iteration(context, key, due, << I, I, I, I >>), LAMBDA plain :
            IF \A i \in 1 .. Len(plain.calls) : ~plain.calls[i].settled
            THEN {plain}
            ELSE Bind(plain.calls[1], LAMBDA flags :
                UNION {Timed(k1, k2) :
                    k1 \in Draws(flags.settled), k2 \in Draws(flags.reset)}))

\* The keys of a game with pauses: q is left to the specification of quitting.
PausableKeys == PlayedKeys \cup {"p"}

\* The games followed through pauses: a new session, the upright I over a
\* well of four rows, and the flat I at the right wall.
LoopSessions ==
    {main(get_new_shape("O"), get_new_shape("I"), 0),
     Hover(Filled(4, 0), Well),
     Hover(Opening(0), <<0, 5>>)}

InitLoop ==
    /\ \E context \in LoopSessions : Holds(context)
    /\ pc = "poll"
    /\ frames = 0
    /\ last = NoCall
    /\ arg = << >>
    /\ ret = [fn |-> "run_game", key |-> "none", frame_calls |-> 0,
              valid_downs |-> (HEIGHT - 4) - shapes[Len(shapes)].y]

\* One iteration with any key but q.
Iterate(due) ==
    /\ pc = "poll"
    /\ ~last.settled
    /\ \E key \in PausableKeys :
        \E step \in Iterations(Context, key, due) :
            /\ Becomes(step.context)
            /\ last' = Noted(step.calls)
            /\ ret' = [fn |-> "run_game", key |-> key,
                       frame_calls |-> Len(step.calls),
                       valid_downs |-> ret.valid_downs + ValidDowns(step.calls)]
    /\ UNCHANGED <<pc, frames, arg>>

\* An iteration in which the timed drop is not due, and one in which it is.
IterNoDrop == Iterate(FALSE)
IterDrop == Iterate(TRUE)

NextLoop == IterNoDrop \/ IterDrop

SpecLoop == InitLoop /\ [][NextLoop]_vars

\* The same loop in a game that is never paused: the I at the spawn position
\* of a new session, the upright I over a well of four rows (its settle
\* clears them), the upright I over a tower below the spawn position (its
\* settle there resets the session) and the flat I at the right wall.  Of
\* the calls only a settle is kept in last, and ret keeps the valid steps down.
LiveSessions ==
    {Opening(0),
     Hover(Filled(4, 0), Well),
     Hover(PlaceAll(Opening(0), FourTowers, 1), Tower),
     Hover(Opening(0), <<0, 5>>)}

InitLive ==
    /\ \E context \in LiveSessions : Holds(context)
    /\ pc = "poll"
    /\ frames = 0
    /\ last = NoCall
    /\ arg = << >>
    /\ ret = [fn |-> "run_game",
              valid_downs |-> (HEIGHT - 4) - shapes[Len(shapes)].y]

Play(due) ==
    /\ pc = "poll"
    /\ ~last.settled
    /\ \E key \in PlayedKeys :
        \E step \in Iterations(Context, key, due) :
            /\ Becomes(step.context)
            /\ last' = IF Noted(step.calls).settled THEN Noted(step.calls)
                       ELSE NoCall
            /\ ret' = [fn |-> "run_game",
                       valid_downs |-> ret.valid_downs + ValidDowns(step.calls)]
    /\ UNCHANGED <<pc, frames, arg>>

PlayNoDrop == Play(FALSE)
PlayDrop == Play(TRUE)

NextLive == PlayNoDrop \/ PlayDrop

\* time.time() grows with every iteration (getch waits up to 50 ms, sleep
\* 10 ms) and last_time is set only by a timed drop, so while the game runs
\* the test of line 407 comes true again and again.
SpecLive ==
    /\ InitLive
    /\ [][NextLive]_vars
    /\ WF_vars(game_started /\ ~paused /\ PlayDrop)

-----------------------------------------------------------------------------
(* Start-up and quit: main() up to the GameContext, quit_game.  arg is the *)
(* stats.json source, ret what main() of the running process made of it.   *)

SavedHighscores == {0, 40, 200, 970}

\* stats.json is a file of the bytes `bytes`.
File(readable, writable, bytes) ==
    [path |-> "file", readable |-> readable, writable |-> writable,
     creatable |-> TRUE, bytes |-> bytes]

\* A file the process may read and write, written with `chars`.
Text(chars) == File(TRUE, TRUE, Str(chars))

\* {"highscore": value} as json.dump writes it.
Stats(value) ==
    [kind |-> "dict",
     pairs |-> << [key |-> Str(<< "h", "i", "g", "h", "s", "c", "o", "r", "e" >>),
                   value |-> value] >>]

\* What json.dump writes before the value of {"highscore": value}.
KeyPrefix == << "{", "\"", "h", "i", "g", "h", "s", "c", "o", "r", "e", "\"", ":", " " >>

StatsSources ==
    {[path |-> "missing", readable |-> FALSE, writable |-> FALSE,
      creatable |-> c, bytes |-> << >>] : c \in BOOLEAN}
    \cup {[path |-> "directory", readable |-> r, writable |-> FALSE,
           creatable |-> TRUE, bytes |-> << >>] : r \in BOOLEAN}
    \cup {File(r, w, json_dump(Stats([kind |-> "int", int |-> 40]))) :
            r, w \in BOOLEAN}
    \cup {Text(<< >>), Text(KeyPrefix), File(TRUE, TRUE, << 255, 123 >>),
          File(TRUE, TRUE, << 123, 34, 97, 34, 58, 34, 195, 169, 34, 125 >>),
          Text(<< "{", "}" >>), Text(<< "[", "]" >>), Text(<< "[", "1", "]" >>),
          Text(<< "7" >>), Text(<< " ", "7" >>), Text(<< "-", "3" >>),
          Text(<< "1", ".", "5" >>), Text(<< "t", "r", "u", "e" >>),
          File(TRUE, TRUE, << 34, 97, 9, 98, 34 >>),
          Text(<< "{", "\"", "a", "\"", ":", " ", "1", "}" >>),
          Text(<< "{", "\"", "h", "i", "g", "h", "s", "c", "o", "r", "e", "\"", ":",
                  "4", "0", "}" >>),
          File(TRUE, TRUE, Str(KeyPrefix \o << "2", "0", "0", "}" >>)
                           \o << 13, 10 >>),
          Text(KeyPrefix \o << "-", "3", "}" >>),
          Text(KeyPrefix \o << "1", "e", "3", "}" >>),
          Text(KeyPrefix \o << "t", "r", "u", "e", "}" >>),
          Text(KeyPrefix \o << "n", "u", "l", "l", "}" >>),
          Text(KeyPrefix \o << "\"", "a", "\\", "u", "0", "0", "e", "9", "\"", "}" >>),
          Text(KeyPrefix \o << "[", "1", ",", " ", "{", "}", "]", "}" >>),
          Text(KeyPrefix \o << "1", ",", " ", "\"", "h", "i", "g", "h", "s", "c", "o",
                               "r", "e", "\"", ":", " ", "2", "}" >>)}
    \cup {File(TRUE, TRUE, json_dump(Stats([kind |-> "int", int |-> h]))) :
            h \in SavedHighscores}

\* Either no process runs yet and stats.json is any source, or a session
\* that was reset with some highscore is running.
InitStats ==
    /\ arg \in StatsSources
    /\ ret = NoRet
    /\ frames = 0
    /\ last = NoCall
    /\ \/ /\ pc = "start"
          /\ Holds(main(get_new_shape("I"), get_new_shape("I"), 0))
       \/ /\ pc = "poll"
          /\ \E h \in SavedHighscores :
                Holds(main(get_new_shape("I"), get_new_shape("I"), h))

\* context.highscore as json.dump takes it: what main() took from
\* stats.json where main() started the session (no frame has changed it),
\* else the int the session was reset with.
HighscoreValue ==
    IF ret.fn = "main" THEN ret.value ELSE [kind |-> "int", int |-> highscore]

\* Lines 394-395 of run_game and quit_game: the q key saves and exits with
\* status 0.  An exception of save_stats leaves run_game before sys.exit(0);
\* main() catches it at line 546, prints it and exits with status 1.  Ctrl-C
\* (line 543) quits the same way, and an exception of its save_stats leaves
\* main(), status 1 again.  With the process ends what its main() had
\* loaded.
QuitGame ==
    /\ pc = "poll"
    /\ \E saved \in {save_stats(arg, Stats(HighscoreValue))} :
        /\ arg' = saved.source
        /\ pc' = IF saved.raised = "none" THEN "exit" ELSE "exit_1"
    /\ ret' = NoRet
    /\ UNCHANGED <<points, level, cleared_rows, highscore, paused, game_started,
                   shapes, next_shape, frames, last>>

\* main() of a new process, up to curses.wrapper: an exception that leaves
\* load_stats().get leaves main(), and there is no session.  An int is the
\* session's highscore as it is, any other value as its record.
StartGame ==
    /\ pc \in {"start", "exit", "exit_1", "crashed"}
    /\ \E loaded \in {get_highscore(arg)} :
        /\ ret' = [fn |-> "main"] @@ loaded
        /\ IF loaded.raised # "none"
           THEN /\ pc' = "crashed"
                /\ UNCHANGED <<points, level, cleared_rows, highscore, paused,
                               game_started, shapes, next_shape>>
           ELSE /\ pc' = "poll"
                /\ \E first, second \in TetrisBlockShape :
                    Becomes(main(get_new_shape(first), get_new_shape(second),
                                 IF loaded.value.kind = "int" THEN loaded.value.int
                                 ELSE loaded.value))
    /\ UNCHANGED <<frames, last, arg>>

NextStats == QuitGame \/ StartGame

SpecStats == InitStats /\ [][NextStats]_vars

-----------------------------------------------------------------------------
(* What the claims speak of, stated on board cells rather than by the      *)
(* functions above.                                                        *)

\* The board coordinates a shape occupies.
Cells(shape) ==
    {<<shape.x + SlotX(i - 1), shape.y + SlotY(i - 1)>> :
        i \in {j \in 1 .. 16 : shape.block[j]}}

Overlap(shape_a, shape_b) == Cells(shape_a) \cap Cells(shape_b) # {}

ActiveShape == shapes[Len(shapes)]

\* The active shape after the move of `key` is out of bounds or overlaps
\* another shape of the list.
Invalid(key) ==
    \E moved \in {Cells(move_shape(ActiveShape, key))} :
        \/ \E cell \in moved : cell[1] < 0 \/ cell[1] >= WIDTH \/ cell[2] < 0
        \/ \E i \in 1 .. (Len(shapes) - 1) : Cells(shapes[i]) \cap moved # {}

\* The shapes get_new_shape() can return.
NewShapes == {get_new_shape(k) : k \in TetrisBlockShape}

\* The step is a frame() call with a directional key; last' tells which.
FrameCall == frames' = frames + 1

\* game_started when frame() is entered: run_game sets it before a polled
\* arrow key is passed on.
StartedAtCall == IF pc = "poll" THEN TRUE ELSE game_started

\* The scoring table.
Factor(n) == CASE n = 1 -> 1 [] n = 2 -> 3 [] n = 3 -> 5 [] n = 4 -> 8 [] OTHER -> 0

\* points after n rows were cleared at the current level.
Gained(n) == points + Factor(n) * 10 * (level + 1)

\* The next shape, spawned, overlaps a shape of the list.
SpawnCollides(left) ==
    \E spawned \in {Cells(next_shape)} :
        \E i \in 1 .. Len(left) : Cells(left[i]) \cap spawned # {}

\* The session after the reset of a lost game.
ResetEffect ==
    /\ points' = 0
    /\ level' = 0
    /\ cleared_rows' = 0
    /\ game_started' = FALSE
    /\ Len(shapes') = 1
    /\ shapes'[1] \in NewShapes

\* What a frame() call that settles does to the session.
SettleEffect ==
    \E cleared \in {clear_full_rows(shapes)} :
        /\ highscore' = Max(highscore, Gained(cleared.number_cleared_rows))
        /\ next_shape' \in NewShapes
        /\ IF SpawnCollides(cleared.shapes)
           THEN ResetEffect
           ELSE /\ shapes' = Append(cleared.shapes, next_shape)
                /\ points' = Gained(cleared.number_cleared_rows)
                /\ cleared_rows' = cleared_rows + cleared.number_cleared_rows
                /\ level' = (cleared_rows + cleared.number_cleared_rows) \div 10
                /\ game_started' = StartedAtCall

\* What a frame() call that does not settle leaves alone: all but the
\* active shape.
NoSettleEffect ==
    /\ points' = points
    /\ level' = level
    /\ cleared_rows' = cleared_rows
    /\ highscore' = highscore
    /\ next_shape' = next_shape
    /\ game_started' = StartedAtCall
    /\ Len(shapes') = Len(shapes)
    /\ \A i \in 1 .. (Len(shapes) - 1) : shapes'[i] = shapes[i]

\* The whole session is as frame() found it.
SessionUnchanged ==
    /\ NoSettleEffect
    /\ shapes' = shapes

-----------------------------------------------------------------------------
(* Claims about frame().                                                   *)

\* C1 as stated: a downward step that is valid runs the settling logic, and
\* nothing else does.
C1_ValidDownSettles ==
    [][FrameCall =>
        /\ (last'.key = KEY_DOWN /\ ~Invalid(KEY_DOWN)) => SettleEffect
        /\ last'.settled => (last'.key = KEY_DOWN /\ ~Invalid(KEY_DOWN))]_vars

\* C1 amended: frame() settles exactly when the key is down and the downward
\* step is rejected (out of bounds or colliding).  It then clears the full
\* rows, updates points and level from their number, appends the next shape
\* as the active one, draws a fresh next shape and raises highscore to at
\* least points; any other call leaves all of that alone.
C1_RejectedDownSettles ==
    [][FrameCall =>
        /\ last'.settled <=> (last'.key = KEY_DOWN /\ Invalid(KEY_DOWN))
        /\ last'.settled => SettleEffect
        /\ ~last'.settled => NoSettleEffect]_vars

\* A rejected downward step has settled a shape and cleared rows.
C1_Witness ==
    /\ last.key = KEY_DOWN
    /\ last.settled
    /\ last.num_deleted_rows = 3
    /\ ~last.reset

\* C2 as stated: a move of any of the four keys that is out of bounds or
\* collides leaves the whole session as it was.
C2_AnyRejectedMoveNoEffect ==
    [][(FrameCall /\ Invalid(last'.key)) => SessionUnchanged]_vars

\* C2 amended: a left, right or up move that is out of bounds or collides
\* leaves the whole session (points, level, cleared_rows, highscore, started
\* flag, shapes, next shape) as it was; a rejected down move settles.
C2_RejectedLateralNoEffect ==
    [][(FrameCall /\ last'.key \in {KEY_LEFT, KEY_RIGHT, KEY_UP} /\ Invalid(last'.key))
        => SessionUnchanged]_vars

\* A rotation was rejected.
C2_Witness ==
    /\ last.key = KEY_UP
    /\ last.rejected
    /\ frames > 0

\* C3: when the shape spawned by a settle overlaps a shape already on the
\* board, the same call resets the session and keeps the highscore.
C3_SpawnCollisionResets ==
    [][(FrameCall /\ last'.settled) =>
        \A cleared \in {clear_full_rows(shapes)} :
            SpawnCollides(cleared.shapes) =>
                /\ ResetEffect
                /\ last'.reset
                /\ highscore' >= highscore
                /\ highscore' >= Gained(cleared.number_cleared_rows)]_vars

\* A game with points was lost and reset.
C3_Witness ==
    /\ last.reset
    /\ highscore = 200
    /\ points = 0
    /\ Len(shapes) = 1

\* C5: a settle adds Factor(n) * 10 * (level + 1) to points, n the rows
\* cleared and level the one before they are counted.  (A lost game's reset
\* follows in the same call: `scored` is points after update_points.)
C5_Scoring ==
    [][(FrameCall /\ last'.settled) =>
        \A n \in {clear_full_rows(shapes).number_cleared_rows} :
            /\ last'.num_deleted_rows = n
            /\ last'.scored = points + Factor(n) * 10 * (level + 1)
            /\ ~last'.reset => points' = last'.scored
            /\ n = 0 => last'.scored = points
            /\ (level = 0 /\ n = 1) => last'.scored = points + 10
            /\ (level = 0 /\ n = 2) => last'.scored = points + 30
            /\ (level = 0 /\ n = 3) => last'.scored = points + 50
            /\ (level = 0 /\ n = 4) => last'.scored = points + 80]_vars

\* The eleventh row was cleared at level 1: 20 points.
C5_Witness ==
    /\ last.settled
    /\ last.num_deleted_rows = 1
    /\ cleared_rows = 11
    /\ points = 200

\* C7: level is cleared_rows // 10 in every state.
C7_LevelFromRows == level = cleared_rows \div 10

\* The tenth row was cleared.
C7_Witness ==
    /\ last.settled
    /\ cleared_rows = 10
    /\ level = 1

\* C8: highscore is at least points, never decreases, and survives a reset.
C8_Highscore ==
    [][/\ highscore' >= points'
       /\ highscore' >= highscore
       /\ (FrameCall /\ last'.reset) => highscore' = Max(highscore, last'.scored)]_vars

\* A settle raised the highscore above the loaded one.
C8_Witness ==
    /\ last.settled
    /\ highscore = 50
    /\ points = 50

\* C10: a left or right move that would put an occupied cell at x < 0 or
\* x >= WIDTH leaves the active shape's position and mask as they were.
C10_WallRejects ==
    [][(/\ FrameCall
        /\ \/ last'.key = KEY_LEFT /\ \E cell \in Cells(ActiveShape) : cell[1] - 1 < 0
           \/ last'.key = KEY_RIGHT /\ \E cell \in Cells(ActiveShape) : cell[1] + 1 >= WIDTH)
        => /\ Len(shapes') = Len(shapes)
           /\ shapes'[Len(shapes')] = ActiveShape]_vars

\* A move to the right was rejected at the right wall.
C10_Witness ==
    /\ last.key = KEY_RIGHT
    /\ last.rejected
    /\ \E cell \in Cells(ActiveShape) : cell[1] = WIDTH - 1

-----------------------------------------------------------------------------
(* Claims about clear_full_rows and intersects_any.                        *)

\* The board cells occupied by some shape of the list.
Occupied(shps) == UNION {Cells(shps[i]) : i \in 1 .. Len(shps)}

\* The rows every column 0 .. WIDTH - 1 of which holds an occupied cell.
CoveredRows(shps) ==
    Bind(Occupied(shps), LAMBDA occupied :
        {r \in 0 .. (HEIGHT - 1) :
            \A col \in 0 .. (WIDTH - 1) : <<col, r>> \in occupied})

Beneath(rows, y) == Cardinality({r \in rows : r < y})

Cleared == ret.fn = "clear_full_rows"

\* Each shape's y is less by the number of rows of `rows` beneath its
\* footprint.
ShiftedPerRowBeneath(rows) ==
    /\ Len(ret.value.shapes) = Len(arg)
    /\ \A i \in 1 .. Len(arg) :
        ret.value.shapes[i].y = arg[i].y - Beneath(rows, arg[i].y)

\* C4 as stated: a list with a covered row r gives a count >= 1, leaves row r
\* without occupied cell, and moves the shapes above down by one per cleared
\* row beneath.
C4_ClearedRowEmpty ==
    Cleared => \A rows \in {CoveredRows(arg)} :
        rows # {} =>
            /\ ret.value.number_cleared_rows >= 1
            /\ \A cell \in Occupied(ret.value.shapes) : cell[2] \notin rows
            /\ ShiftedPerRowBeneath(rows)

\* C4 amended: a list with a covered row r gives a count >= 1 (the number of
\* covered rows); the cells of the covered rows are removed and every other
\* cell moves down by the number of covered rows beneath it, so row r then
\* holds what lay above it and no row is left covered; every shape whose
\* footprint lies strictly above a cleared row has its y decreased by
\* exactly one for each cleared row beneath it.
C4_ClearedRowReplaced ==
    Cleared => \A rows \in {CoveredRows(arg)} :
        rows # {} =>
            /\ ret.value.number_cleared_rows >= 1
            /\ ret.value.number_cleared_rows = Cardinality(rows)
            /\ Occupied(ret.value.shapes) =
                {<<cell[1], cell[2] - Beneath(rows, cell[2])>> :
                    cell \in {c \in Occupied(arg) : c[2] \notin rows}}
            /\ CoveredRows(ret.value.shapes) = {}
            /\ ShiftedPerRowBeneath(rows)

\* Two rows were cleared beneath a shape, and cells from above lie in row 0.
C4_Witness ==
    /\ Cleared
    /\ CoveredRows(arg) = {0, 1}
    /\ ret.value.number_cleared_rows = 2
    /\ \E i \in 1 .. Len(arg) : arg[i].y = 2 /\ ret.value.shapes[i].y = 0
    /\ \E cell \in Occupied(ret.value.shapes) : cell[2] = 0

\* C6: intersects_any is true exactly when the last shape and another shape
\* of the list occupy a common board cell; for a pair the result is the same
\* whichever of the two is last.
C6_IntersectsExact ==
    ret.fn = "intersects_any" =>
        /\ ret.value = (\E i \in 1 .. (Len(arg) - 1) : Overlap(arg[i], arg[Len(arg)]))
        /\ Len(arg) = 2 => intersects_any(<<arg[2], arg[1]>>) = ret.value

\* An overlap in a single cell was found, in a pair and with either last.
C6_Witness ==
    /\ ret.fn = "intersects_any"
    /\ Len(arg) = 2
    /\ Cardinality(Cells(arg[1]) \cap Cells(arg[2])) = 1
    /\ ret.value

\* C9: a list without covered row gives 0 and is left as it was.
C9_NoFullRowNoChange ==
    (Cleared /\ CoveredRows(arg) = {}) =>
        /\ ret.value.number_cleared_rows = 0
        /\ ret.value.shapes = arg

\* A row covered but for column 12 was left alone.
C9_Witness ==
    /\ Cleared
    /\ CoveredRows(arg) = {}
    /\ \A col \in 0 .. (WIDTH - 2) : <<col, 0>> \in Occupied(arg)
    /\ ret.value.number_cleared_rows = 0

\* C14: clear_full_rows returns, whatever the list.  When it returns n, no
\* row of 0 .. HEIGHT - 1 is covered, n is the number of rows that were
\* covered, and the board is the board before the call with the cells of
\* those rows deleted and every other cell lowered by the number of deleted
\* rows beneath it; cells beneath all deleted rows stay where they were.
C14_ClearsAllFullRows ==
    Cleared => \A deleted \in {CoveredRows(arg)} :
        \A before \in {Occupied(arg)}, after \in {Occupied(ret.value.shapes)} :
            /\ ret.value.number_cleared_rows = Cardinality(deleted)
            /\ \A r \in 0 .. (HEIGHT - 1) :
                \E col \in 0 .. (WIDTH - 1) : <<col, r>> \notin after
            /\ after = {<<cell[1], cell[2] - Beneath(deleted, cell[2])>> :
                            cell \in {c \in before : c[2] \notin deleted}}
            /\ \A cell \in before :
                (\A r \in deleted : cell[2] < r) => cell \in after

\* Row 1 was cleared alone: the cells of row 0 stayed, a cell of row 2 lies
\* in row 1 now, and the list keeps its length.
C14_Witness ==
    /\ Cleared
    /\ CoveredRows(arg) = {1}
    /\ ret.value.number_cleared_rows = 1
    /\ Len(ret.value.shapes) = Len(arg)
    /\ \E cell \in Occupied(arg) : cell[2] = 0 /\ cell \in Occupied(ret.value.shapes)
    /\ \E cell \in Occupied(arg) :
        cell[2] = 2 /\ <<cell[1], 1>> \in Occupied(ret.value.shapes)

-----------------------------------------------------------------------------
(* Claims about rotate_shape.                                              *)

\* The number of occupied cells of a mask.
Count(mask) == Cardinality({i \in 1 .. 16 : mask[i]})

\* C11: rotate_shape puts what the mask holds at local (x, y) at local
\* (y, 3 - x); four applications return the mask; every application keeps
\* the number of occupied cells.
C11_RotationOrderFour ==
    ret.fn = "rotate_shape" =>
        /\ ret.turns = 1 =>
            \A x \in 0 .. 3 : \A y \in 0 .. 3 :
                ret.value[4 * (3 - x) + (3 - y) + 1] = arg[4 * y + (3 - x) + 1]
        /\ ret.turns = 4 => ret.value = arg
        /\ Count(ret.value) = Count(arg)

\* The L mask came back after four turns, and not after two.
C11_Witness ==
    /\ ret.fn = "rotate_shape"
    /\ arg = BLOCK_MASKS["L"]
    /\ ret.turns = 4
    /\ ret.value = arg
    /\ rotate_shape(rotate_shape(arg)) # arg

-----------------------------------------------------------------------------
(* Claims about start-up.                                                  *)

\* A quit has written the highscore h to the source.
Persisted(source, h) ==
    /\ source.path = "file"
    /\ source.bytes = save_stats(Text(<< >>), Stats([kind |-> "int", int |-> h])).source.bytes

\* The source is missing, unreadable or malformed, or its content has no
\* usable highscore: an int under the key "highscore" of an object.
Unusable(source) ==
    \/ source.path = "missing"
    \/ \E loaded \in {load_stats(source)} :
        \/ loaded.raised # "none"
        \/ loaded.value.kind # "dict"
        \/ get(loaded.value, Str(<< "h", "i", "g", "h", "s", "c", "o", "r", "e" >>),
               [kind |-> "None"]).kind # "int"

\* C12 as stated: start-up raises nothing whatever the stats source is; the
\* session starts with the highscore a quit has written, and with 0 from a
\* source that is missing, unreadable, malformed or without a usable
\* highscore.
C12_StartupNeverFails ==
    ret.fn = "main" =>
        /\ ret.raised = "none"
        /\ ret.value.kind = "int"
        /\ \A h \in SavedHighscores : Persisted(arg, h) => ret.value.int = h
        /\ Unusable(arg) => ret.value.int = 0

-----------------------------------------------------------------------------
(* Claims about the states of a session.                                   *)

\* The occupied cells of the masks of a list of shapes, counted per shape.
RECURSIVE CellCount(_, _)
CellCount(shps, i) ==
    IF i > Len(shps) THEN 0
    ELSE Cardinality({j \in 1 .. 16 : shps[i].block[j]}) + CellCount(shps, i + 1)

\* C13: in every state of a session no board cell is occupied by two shapes
\* of the list (a cell shared by two shapes would make the occupied cells of
\* the board fewer than the cells of the shapes), and every occupied cell has 0 <= x < WIDTH and y >= 0; settling,
\* row clearing and spawning included.
C13_DisjointInBounds ==
    \A board \in {Occupied(shapes)} :
        /\ Cardinality(board) = CellCount(shapes, 1)
        /\ \A cell \in board :
            cell[1] >= 0 /\ cell[1] < WIDTH /\ cell[2] >= 0

\* A settle has cleared a row and left fragments of shapes below the new
\* active shape.
C13_Witness ==
    /\ last.settled
    /\ last.num_deleted_rows = 1
    /\ ~last.reset
    /\ Len(shapes) > 4
    /\ \E i \in 1 .. (Len(shapes) - 1) :
        Cardinality(Cells(shapes[i])) \in 1 .. 3

\* C15: a frame() call settles exactly when its key is down and the step
\* down is out of bounds or collides; a settle leaves a list that ends with
\* the former next shape or, after a reset, a single new shape.  A valid
\* step down changes nothing but the y of the active shape, by one.  A call
\* with left, right or up, valid or rejected, leaves points, level,
\* cleared_rows, highscore, the length of the list, the next shape and every
\* shape but the active one as they were.
C15_SettleOnlyOnRejectedDown ==
    [][FrameCall =>
        \E key \in {last'.key}, active \in {ActiveShape} :
            /\ last'.settled <=> (key = KEY_DOWN /\ Invalid(KEY_DOWN))
            /\ last'.settled =>
                \/ shapes'[Len(shapes')] = next_shape /\ Len(shapes') = Len(shapes) + 1
                \/ last'.reset /\ Len(shapes') = 1
            /\ (key = KEY_DOWN /\ ~Invalid(KEY_DOWN)) =>
                /\ shapes' = WithActive(shapes, [active EXCEPT !.y = active.y - 1])
                /\ <<points', level', cleared_rows', highscore', next_shape'>> =
                   <<points, level, cleared_rows, highscore, next_shape>>
            /\ key \in {KEY_LEFT, KEY_RIGHT, KEY_UP} =>
                /\ ~last'.settled
                /\ <<points', level', cleared_rows', highscore', next_shape'>> =
                   <<points, level, cleared_rows, highscore, next_shape>>
                /\ Len(shapes') = Len(shapes)
                /\ SubSeq(shapes', 1, Len(shapes) - 1) =
                   SubSeq(shapes, 1, Len(shapes) - 1)]_vars

\* A valid step down has lowered an active shape that stands over settled
\* shapes, in a game with points.
C15_Witness ==
    /\ last.key = KEY_DOWN
    /\ ~last.rejected
    /\ ~last.settled
    /\ frames > 0
    /\ Len(shapes) > 1
    /\ points > 0
    /\ ActiveShape.y < HEIGHT - 4

\* C18: in every state of a game no row is covered by the shapes other than
\* the active one, so a settle clears only rows the landed shape has cells
\* in: it clears 0 to 4 rows, and the multiplier of update_points is 0 only
\* when no row was cleared (a settle that clears rows adds points).
C18_SettleClearsAtMostFour ==
    /\ [](CoveredRows(SubSeq(shapes, 1, Len(shapes) - 1)) = {})
    /\ [][(FrameCall /\ last'.settled) =>
            \E n \in {last'.num_deleted_rows} :
                /\ n \in 0 .. 4
                /\ n <= Cardinality({cell[2] : cell \in Cells(ActiveShape)})
                /\ Factor(n) = 0 <=> n = 0
                /\ last'.scored = points + Factor(n) * 10 * (level + 1)
                /\ n > 0 => last'.scored > points]_vars

\* An upright I has settled in the well and four rows were cleared, for 80
\* points.
C18_Witness ==
    /\ last.settled
    /\ last.num_deleted_rows = 4
    /\ ~last.reset
    /\ cleared_rows = 4
    /\ points = 80
    /\ last.scored = points

\* C20: in every state the active shape and the next shape have exactly 4
\* occupied cells and every other shape of the list at most 4.  A frame()
\* call that does not settle keeps every shape's number of cells (a rotation
\* too); a settle that does not reset the session keeps every shape in the
\* list, also those left without cells, and takes from each as many cells as
\* it had in the cleared rows.
C20_CellCounts ==
    /\ [](/\ Count(shapes[Len(shapes)].block) = 4
          /\ Count(next_shape.block) = 4
          /\ \A i \in 1 .. Len(shapes) : Count(shapes[i].block) <= 4)
    /\ [][FrameCall =>
            /\ ~last'.settled =>
                /\ Len(shapes') = Len(shapes)
                /\ \A i \in 1 .. Len(shapes) :
                    Count(shapes'[i].block) = Count(shapes[i].block)
            /\ (last'.settled /\ ~last'.reset) =>
                \E rows \in {CoveredRows(shapes)} :
                    /\ Len(shapes') = Len(shapes) + 1
                    /\ \A i \in 1 .. Len(shapes) :
                        Count(shapes'[i].block) = Count(shapes[i].block) -
                            Cardinality({cell \in Cells(shapes[i]) : cell[2] \in rows})]_vars

\* A settle has cleared a row; a shape without cells and a shape with one
\* cell left are in the list.
C20_Witness ==
    /\ last.settled
    /\ last.num_deleted_rows >= 1
    /\ \E i \in 1 .. (Len(shapes) - 1) : Count(shapes[i].block) = 0
    /\ \E i \in 1 .. (Len(shapes) - 1) : Count(shapes[i].block) = 1

-----------------------------------------------------------------------------
(* Claims about the run_game loop.                                         *)

\* C16 as stated: frame() is called only while game_started is true (a
\* polled directional key sets it before the call), and while it is false
\* the shapes stay as they are, also in the loop iteration in which a lost
\* game was reset and the timed drop is due.
C16_NoFrameWhileNotStarted ==
    [][/\ FrameCall => StartedAtCall
       /\ (~game_started /\ pc = "timer") => shapes' = shapes]_vars

\* C19: in a loop iteration after whose key handling paused is true no
\* frame() call is made, neither for the key nor for the timed drop, and the
\* iteration leaves shapes, next shape, points, level, cleared_rows and
\* highscore as they were; an arrow key polled while the game is paused
\* leaves paused as well and sets game_started.
C19_PausedIterationIdle ==
    [][paused' =>
        /\ ret'.frame_calls = 0
        /\ <<shapes', next_shape', points', level', cleared_rows', highscore'>> =
           <<shapes, next_shape, points, level, cleared_rows, highscore>>
        /\ ret'.key \in ARROW_KEYS =>
            /\ paused
            /\ game_started'
        /\ ret'.key \notin ARROW_KEYS => game_started' = game_started]_vars

\* An arrow key was polled in a paused game whose shape hangs in mid-air
\* with the timed drop due or not: no call was made.
C19_Witness ==
    /\ ret.fn = "run_game"
    /\ ret.key = KEY_DOWN
    /\ ret.frame_calls = 0
    /\ paused
    /\ game_started
    /\ Len(shapes) = 1
    /\ shapes[1].y \in 1 .. (HEIGHT - 5)

\* C17: in a game that is started and not paused and whose timed drop
\* keeps coming due, the active shape settles (or the session is reset by
\* that settle) whatever keys are polled in between.  Until then the active
\* shape's y never increases, and it makes at most HEIGHT valid steps down.
C17_ActiveShapeSettles ==
    /\ [][~last'.settled =>
            /\ Len(shapes') = Len(shapes)
            /\ shapes'[Len(shapes')].y <= shapes[Len(shapes)].y]_vars
    /\ [](ret.fn = "run_game" => ret.valid_downs <= HEIGHT)
    /\ (game_started /\ ~paused) ~> last.settled

\* A flat I that started at the spawn position of an empty board has
\* settled on the floor after 18 valid steps down.
C17_Witness ==
    /\ ret.fn = "run_game"
    /\ last.settled
    /\ ~last.reset
    /\ ret.valid_downs = 18
    /\ Len(shapes) = 2
    /\ shapes[1].y = -1

====
